---- MODULE Spec2Model ----
(***************************************************************************)
(* Row-level-security support of django_rls.                               *)
(*                                                                         *)
(*  - RLSMiddleware.process_request (src/django_rls/middleware.py): sets   *)
(*    the PostgreSQL session variables of the request's connection.       *)
(*  - build_rls_using_clause (src/django_rls/utils.py): the predicate of   *)
(*    the generated policy, evaluated here with PostgreSQL's semantics of  *)
(*    CASE, current_setting, three-valued AND and type casts.              *)
(*                                                                         *)
(* Texts are TLA+ strings.  A Python value is a record [type, v]; a        *)
(* session variable and a column value are records [isnull, text].         *)
(***************************************************************************)
EXTENDS Integers, Sequences, FiniteSets, TLC

(***************************************************************************)
(* Bounds of the model.                                                    *)
(***************************************************************************)
\* longest mapping the context resolver returns
MaxCtxLen == 2
\* application queries run by one request
MaxQueries == 1
\* longest protected-field list given to build_rls_using_clause
MaxFields == 2

(***************************************************************************)
(* Configuration (DjangoRLSSettings) and reserved literals.                *)
(***************************************************************************)
RLS_FIELDS == <<"tenant_id", "owner_id">>

SESSION_NAMESPACE_PREFIX == "rls"

\* RlsWildcard.ALL.value and RlsWildcard.NONE.value
RlsWildcardValue(member) ==
    IF member = "ALL" THEN "SPECIAL_CASE_ALL" ELSE "SPECIAL_CASE_NONE"

\* field names a resolver or a table may use; "org_id" is not configured
FieldNames == {"tenant_id", "owner_id", "org_id"}

Threads == {"t1", "t2"}

MainThread == "t1"

Vendors == {"postgresql", "sqlite"}

(***************************************************************************)
(* Python values handled by the middleware.                                *)
(***************************************************************************)
PyNone == [type |-> "NoneType", v |-> "None"]

PyWildcard(member) == [type |-> "RlsWildcard", v |-> member]

PyUUID(hex) == [type |-> "UUID", v |-> hex]

PyStr(s) == [type |-> "str", v |-> s]

PyInt(digits) == [type |-> "int", v |-> digits]

\* values a context resolver may give a field
ResolverValues ==
    {PyNone, PyWildcard("ALL"), PyWildcard("NONE"), PyUUID("1b4e28ba"), PyInt("1")}

RECURSIVE DistinctFields(_)
DistinctFields(ctx) ==
    IF Len(ctx) <= 1 THEN TRUE
    ELSE /\ \A i \in 2..Len(ctx) : ctx[i].field # ctx[1].field
         /\ DistinctFields(Tail(ctx))

CtxItems(values) == [field : FieldNames, value : values]

\* a dict in insertion order: a sequence of items with pairwise distinct keys
Mappings(values, maxlen) ==
    {ctx \in UNION {[1..n -> CtxItems(values)] : n \in 0..maxlen} : DistinctFields(ctx)}

ResolverOutputs == Mappings(ResolverValues, MaxCtxLen)

\* resolver outputs of the runs with several connections
ConcurrentOutputs == Mappings({PyWildcard("ALL"), PyInt("1")}, 1)

Keys(ctx) == {ctx[i].field : i \in 1..Len(ctx)}

Range(s) == {s[i] : i \in 1..Len(s)}

(***************************************************************************)
(* Session variables of a connection.                                      *)
(***************************************************************************)
Unset == [isnull |-> TRUE, text |-> ""]

Text(s) == [isnull |-> FALSE, text |-> s]

\* f"{prefix}.{field}"
SessionKey(prefix, field) == <<prefix, field>>

Prefixes == {SESSION_NAMESPACE_PREFIX, "app"}

AllKeys == {SessionKey(p, f) : p \in Prefixes, f \in FieldNames}

NoSession == [k \in AllKeys |-> Unset]

VARIABLES
    vendor,        \* connection.vendor
    pc,            \* per thread: position of the request it handles
    request,       \* per thread: what the bypass predicate and the resolver return for the request
    rls_context,   \* per thread: local rls_context of process_request
    idx,           \* per thread: position of the loop over rls_context.items()
    executed,      \* per thread: SET statements the request has executed
    warnings,      \* per thread: warnings the request has logged
    bypassCalls,   \* per thread: calls of BYPASS_CHECK_RESOLVER in the request
    resolverCalls, \* per thread: calls of REQUEST_RESOLVER in the request
    cursors,       \* per thread: cursors the request has opened
    queries,       \* per thread: application queries the request has run
    session,       \* per connection: the session variables
    stale,         \* per connection and variable: value assigned before the current request began
    writer,        \* per connection and variable: threads that have assigned it
    fields,        \* build_rls_using_clause: argument fields
    field_types,   \* build_rls_using_clause: argument field_types
    session_prefix,\* build_rls_using_clause: argument session_prefix
    using_clause,  \* build_rls_using_clause: the clause returned
    verdict,       \* per row: value of the clause and of its sub-clauses on the connection
    clause_pc      \* "input", "built" or "evaluated"

mwvars == <<vendor, pc, request, rls_context, idx, executed, warnings, bypassCalls,
            resolverCalls, cursors, queries, session, stale, writer>>

clvars == <<fields, field_types, session_prefix, using_clause, verdict, clause_pc>>

VARIABLES
    changes,       \* write_migration_files: the batch, a sequence of migrations [app, name, operations]
    original,      \* the batch as the autodetector computed it
    tenant_apps,   \* rls_settings.TENANT_APPS
    interactive,   \* Command.interactive
    hook_i,        \* write_migration_files: position in its sequence of calls
    inject_pc,     \* inject_rls_operations: "idle", "loop" or "returned"
    cur,           \* inject_rls_operations: [m, o], the positions of its two loops
    persisted,     \* the migrations written by super().write_migration_files
    stdout,        \* messages written to the operator
    selection,     \* per processed create-table operation: how its fields were selected
    phase_log,     \* the calls write_migration_files has made, in order
    db,            \* the protected table in the database: its policy and row-security flags
    db_history,    \* the database after each of the migration steps run so far
    steps,         \* the migration steps run so far: "forward" or "reverse"
    policy_op,     \* the RunSQL operation whose statements are run
    proc,          \* the process: "boot", "running" or "failed"
    cfg,           \* the DJANGO_RLS settings the process is started with
    files,         \* the migration file of each migration of the batch: [exists, content]
    file_history,  \* the files as written, then after each run of _format_migration_sql
    writes         \* per migration file, how often _format_migration_sql has written it

mgvars == <<changes, original, tenant_apps, interactive, hook_i, inject_pc, cur, persisted,
            stdout, selection, phase_log>>

dbvars == <<db, db_history, steps, policy_op>>

stvars == <<proc, cfg>>

fmvars == <<files, file_history, writes>>

vars == <<mwvars, clvars, mgvars, dbvars, stvars, fmvars>>

\* DJANGO_RLS settings: the migration-user flag and whether each credential is set
Settings == [USE_DB_MIGRATION_USER : BOOLEAN, MIGRATION_USER : BOOLEAN, MIGRATION_PASSWORD : BOOLEAN]

DefaultSettings ==
    [USE_DB_MIGRATION_USER |-> FALSE, MIGRATION_USER |-> FALSE, MIGRATION_PASSWORD |-> FALSE]

\* the process has started with the default settings
Started ==
    /\ proc = "running"
    /\ cfg = DefaultSettings

\* no migration batch is being written
MigIdle ==
    /\ changes = <<>>
    /\ original = <<>>
    /\ tenant_apps = <<>>
    /\ interactive = FALSE
    /\ hook_i = 0
    /\ inject_pc = "idle"
    /\ cur = [m |-> 1, o |-> 1]
    /\ persisted = <<>>
    /\ stdout = <<>>
    /\ selection = <<>>
    /\ phase_log = <<>>

\* no migration file has been written
FmIdle ==
    /\ files = <<>>
    /\ file_history = <<>>
    /\ writes = <<>>

\* no migration is being applied
DbIdle ==
    /\ db = <<>>
    /\ db_history = <<>>
    /\ steps = <<>>
    /\ policy_op = <<>>

NoRequest == [bypass |-> FALSE, resolved |-> <<>>]

\* django.db.connection is the connection of the calling thread
ConnOfShared(t) == MainThread

ConnOf(t) == t

IsPostgresAlways(v) == TRUE

IsPostgres(v) == v = "postgresql"

\* {field: RlsWildcard.ALL for field in rls_settings.RLS_FIELDS}
BypassContextFirstOnly(rls_fields) ==
    [i \in 1..(IF Len(rls_fields) > 0 THEN 1 ELSE 0) |->
        [field |-> rls_fields[i], value |-> PyWildcard("ALL")]]

BypassContext(rls_fields) ==
    [i \in 1..Len(rls_fields) |-> [field |-> rls_fields[i], value |-> PyWildcard("ALL")]]

\* set(rls_context.keys()) - set(rls_settings.RLS_FIELDS)
UnexpectedFields(ctx) == Keys(ctx) \ Range(RLS_FIELDS)

IsConfiguredAny(field) == TRUE

\* the negation of "field not in rls_settings.RLS_FIELDS"
IsConfigured(field) == field \in Range(RLS_FIELDS)

DbValueNoStr(value) ==
    IF value.type = "RlsWildcard" THEN PyStr(RlsWildcardValue(value.v))
    ELSE IF value.type = "NoneType" THEN PyStr(RlsWildcardValue("NONE"))
    ELSE value

\* the normalisation of a value to the db_value given to cursor.execute
DbValue(value) ==
    IF value.type = "RlsWildcard" THEN PyStr(RlsWildcardValue(value.v))
    ELSE IF value.type = "NoneType" THEN PyStr(RlsWildcardValue("NONE"))
    ELSE IF value.type = "UUID" THEN PyStr(value.v)
    ELSE value

\* the text a session variable holds after SET key = %s with the parameter
ParamText(db_value) == Text(db_value.v)

LoopDoneAtOnce(t) == TRUE

\* the loop over rls_context.items() is exhausted
LoopDone(t) == idx[t] > Len(rls_context[t])

MwIdle ==
    /\ pc = [t \in Threads |-> "idle"]
    /\ request = [t \in Threads |-> NoRequest]
    /\ rls_context = [t \in Threads |-> <<>>]
    /\ idx = [t \in Threads |-> 1]
    /\ executed = [t \in Threads |-> <<>>]
    /\ warnings = [t \in Threads |-> 0]
    /\ bypassCalls = [t \in Threads |-> 0]
    /\ resolverCalls = [t \in Threads |-> 0]
    /\ cursors = [t \in Threads |-> 0]
    /\ queries = [t \in Threads |-> 0]
    /\ stale = [c \in Threads |-> [k \in AllKeys |-> FALSE]]
    /\ writer = [c \in Threads |-> [k \in AllKeys |-> {}]]

\* a request reaches the middleware on thread t; what the connection holds is from earlier requests
StartRequest(t, bypass, resolved) ==
    /\ proc = "running"
    /\ pc[t] = "idle"
    /\ pc' = [pc EXCEPT ![t] = "process_request"]
    /\ request' = [request EXCEPT ![t] = [bypass |-> bypass, resolved |-> resolved]]
    /\ stale' = [stale EXCEPT ![ConnOf(t)] =
                    [k \in AllKeys |-> ~session[ConnOf(t)][k].isnull]]
    /\ UNCHANGED <<vendor, rls_context, idx, executed, warnings, bypassCalls,
                   resolverCalls, cursors, queries, session, writer>>
    /\ UNCHANGED <<clvars, mgvars, dbvars, stvars, fmvars>>

\* process_request on a backend that is not PostgreSQL: return at once
SkipVendor(t) ==
    /\ pc[t] = "process_request"
    /\ ~IsPostgres(vendor)
    /\ pc' = [pc EXCEPT ![t] = "view"]
    /\ UNCHANGED <<vendor, request, rls_context, idx, executed, warnings, bypassCalls,
                   resolverCalls, cursors, queries, session, stale, writer>>
    /\ UNCHANGED <<clvars, mgvars, dbvars, stvars, fmvars>>

\* process_request steps 1 and 2 and the opening of the cursor
Resolve(t) ==
    /\ pc[t] = "process_request"
    /\ IsPostgres(vendor)
    /\ bypassCalls' = [bypassCalls EXCEPT ![t] = @ + 1]
    /\ IF request[t].bypass
       THEN /\ rls_context' = [rls_context EXCEPT ![t] = BypassContext(RLS_FIELDS)]
            /\ UNCHANGED resolverCalls
       ELSE /\ rls_context' = [rls_context EXCEPT ![t] = request[t].resolved]
            /\ resolverCalls' = [resolverCalls EXCEPT ![t] = @ + 1]
    /\ warnings' = [warnings EXCEPT ![t] =
                       IF UnexpectedFields(rls_context'[t]) # {} THEN @ + 1 ELSE @]
    /\ cursors' = [cursors EXCEPT ![t] = @ + 1]
    /\ idx' = [idx EXCEPT ![t] = 1]
    /\ pc' = [pc EXCEPT ![t] = "apply"]
    /\ UNCHANGED <<vendor, request, executed, queries, session, stale, writer>>
    /\ UNCHANGED <<clvars, mgvars, dbvars, stvars, fmvars>>

\* one iteration of the loop of step 3
SetVar(t) ==
    /\ pc[t] = "apply"
    /\ idx[t] <= Len(rls_context[t])
    /\ LET item == rls_context[t][idx[t]]
           key == SessionKey(SESSION_NAMESPACE_PREFIX, item.field)
           db_value == DbValue(item.value)
           c == ConnOf(t)
       IN  IF ~IsConfigured(item.field)
           THEN UNCHANGED <<executed, session, stale, writer>>
           ELSE /\ executed' = [executed EXCEPT ![t] =
                                   Append(@, [key |-> key, param |-> db_value])]
                /\ session' = [session EXCEPT ![c][key] = ParamText(db_value)]
                /\ stale' = [stale EXCEPT ![c][key] = FALSE]
                /\ writer' = [writer EXCEPT ![c][key] = @ \cup {t}]
    /\ idx' = [idx EXCEPT ![t] = @ + 1]
    /\ UNCHANGED <<vendor, pc, request, rls_context, warnings, bypassCalls,
                   resolverCalls, cursors, queries>>
    /\ UNCHANGED <<clvars, mgvars, dbvars, stvars, fmvars>>

\* process_request returns and the request goes on to the view
Return(t) ==
    /\ pc[t] = "apply"
    /\ LoopDone(t)
    /\ pc' = [pc EXCEPT ![t] = "view"]
    /\ UNCHANGED <<vendor, request, rls_context, idx, executed, warnings, bypassCalls,
                   resolverCalls, cursors, queries, session, stale, writer>>
    /\ UNCHANGED <<clvars, mgvars, dbvars, stvars, fmvars>>

\* the view runs an application query on the connection
Query(t) ==
    /\ pc[t] = "view"
    /\ queries[t] < MaxQueries
    /\ queries' = [queries EXCEPT ![t] = @ + 1]
    /\ UNCHANGED <<vendor, pc, request, rls_context, idx, executed, warnings,
                   bypassCalls, resolverCalls, cursors, session, stale, writer>>
    /\ UNCHANGED <<clvars, mgvars, dbvars, stvars, fmvars>>

\* the response is sent; the connection stays open for the thread's next request
Finish(t) ==
    /\ pc[t] = "view"
    /\ pc' = [pc EXCEPT ![t] = "idle"]
    /\ request' = [request EXCEPT ![t] = NoRequest]
    /\ rls_context' = [rls_context EXCEPT ![t] = <<>>]
    /\ idx' = [idx EXCEPT ![t] = 1]
    /\ executed' = [executed EXCEPT ![t] = <<>>]
    /\ warnings' = [warnings EXCEPT ![t] = 0]
    /\ bypassCalls' = [bypassCalls EXCEPT ![t] = 0]
    /\ resolverCalls' = [resolverCalls EXCEPT ![t] = 0]
    /\ cursors' = [cursors EXCEPT ![t] = 0]
    /\ queries' = [queries EXCEPT ![t] = 0]
    /\ UNCHANGED <<vendor, session, stale, writer>>
    /\ UNCHANGED <<clvars, mgvars, dbvars, stvars, fmvars>>

\* no clause is built in the runs of the middleware
ClauseIdle ==
    /\ fields = <<>>
    /\ field_types = <<>>
    /\ session_prefix = SESSION_NAMESPACE_PREFIX
    /\ using_clause = <<>>
    /\ verdict = <<>>
    /\ clause_pc = "input"

Init ==
    /\ vendor \in Vendors
    /\ session = [c \in Threads |-> NoSession]
    /\ MwIdle
    /\ ClauseIdle
    /\ MigIdle
    /\ DbIdle
    /\ Started
    /\ FmIdle

\* requests handled one after another on one connection
Next ==
    \/ \E b \in BOOLEAN, r \in ResolverOutputs : StartRequest(MainThread, b, r)
    \/ SkipVendor(MainThread)
    \/ Resolve(MainThread)
    \/ SetVar(MainThread)
    \/ Return(MainThread)
    \/ Query(MainThread)
    \/ Finish(MainThread)

Spec == Init /\ [][Next]_vars

\* requests handled concurrently, each thread on its own connection
NextConc ==
    \E t \in Threads :
        \/ \E b \in BOOLEAN, r \in ConcurrentOutputs : StartRequest(t, b, r)
        \/ SkipVendor(t)
        \/ Resolve(t)
        \/ SetVar(t)
        \/ Return(t)
        \/ Query(t)
        \/ Finish(t)

SpecConc == Init /\ [][NextConc]_vars

(***************************************************************************)
(* build_rls_using_clause and PostgreSQL's evaluation of its result.       *)
(***************************************************************************)
\* field_types.get(field, "text")
DictGet(d, k, default) == IF k \in DOMAIN d THEN d[k] ELSE default

\* WHEN current_setting(key[, true]) <op> [literal] THEN <then>
Arm(op, key, missing_ok, literal, then) ==
    [op |-> op, key |-> key, missing_ok |-> missing_ok, literal |-> literal, then |-> then]

\* ELSE {field} = current_setting(key)::{sql_type}
ElseCompare(field, key, sql_type) == [column |-> field, key |-> key, cast |-> sql_type]

SubClauseWithoutNone(field, sql_type, prefix) ==
    LET key == SessionKey(prefix, field)
    IN  [arms |-> << Arm("IS NULL", key, TRUE, "", "FALSE"),
                     Arm("=", key, FALSE, "", "FALSE"),
                     Arm("=", key, FALSE, RlsWildcardValue("ALL"), "TRUE") >>,
         els |-> ElseCompare(field, key, sql_type)]

SubClauseWithoutAll(field, sql_type, prefix) ==
    LET key == SessionKey(prefix, field)
    IN  [arms |-> << Arm("IS NULL", key, TRUE, "", "FALSE"),
                     Arm("=", key, FALSE, "", "FALSE"),
                     Arm("=", key, FALSE, RlsWildcardValue("NONE"), "FALSE") >>,
         els |-> ElseCompare(field, key, sql_type)]

\* the CASE expression built for one field
SubClause(field, sql_type, prefix) ==
    LET key == SessionKey(prefix, field)
    IN  [arms |-> << Arm("IS NULL", key, TRUE, "", "FALSE"),
                     Arm("=", key, FALSE, "", "FALSE"),
                     Arm("=", key, FALSE, RlsWildcardValue("NONE"), "FALSE"),
                     Arm("=", key, FALSE, RlsWildcardValue("ALL"), "TRUE") >>,
         els |-> ElseCompare(field, key, sql_type)]

build_rls_using_clause_all_text(flds, types, prefix) ==
    [i \in 1..Len(flds) |-> SubClause(flds[i], "text", prefix)]

\* " AND\n".join(clauses): the sub-clauses in the order of fields
build_rls_using_clause(flds, types, prefix) ==
    [i \in 1..Len(flds) |-> SubClause(flds[i], DictGet(types, flds[i], "text"), prefix)]

\* current_setting(key, missing_ok) on the session variables S
CurrentSetting(S, key, missing_ok) ==
    IF S[key].isnull
    THEN [status |-> IF missing_ok THEN "null" ELSE "error", text |-> ""]
    ELSE [status |-> "ok", text |-> S[key].text]

\* text::int accepts decimal digits, leading zeros included
CastInt(text) ==
    IF text \in {"1", "01"} THEN [status |-> "ok", text |-> "1"]
    ELSE IF text \in {"2", "02"} THEN [status |-> "ok", text |-> "2"]
    ELSE [status |-> "error", text |-> ""]

\* text::sql_type, the value in the canonical output form of the type
Cast(text, sql_type) ==
    IF sql_type \in {"int", "bigint"} THEN CastInt(text)
    ELSE [status |-> "ok", text |-> text]

\* the condition of a WHEN arm: "TRUE", "FALSE", "NULL" or "ERROR"
ArmTest(S, arm) ==
    LET cs == CurrentSetting(S, arm.key, arm.missing_ok)
    IN  IF cs.status = "error" THEN "ERROR"
        ELSE IF arm.op = "IS NULL" THEN (IF cs.status = "null" THEN "TRUE" ELSE "FALSE")
        ELSE IF cs.status = "null" THEN "NULL"
        ELSE IF cs.text = arm.literal THEN "TRUE" ELSE "FALSE"

\* the ELSE branch on a row
EvalElse(S, els, row) ==
    LET cs == CurrentSetting(S, els.key, FALSE)
        cast == Cast(cs.text, els.cast)
    IN  IF cs.status = "error" THEN "ERROR"
        ELSE IF cast.status = "error" THEN "ERROR"
        ELSE IF row[els.column].isnull THEN "NULL"
        ELSE IF row[els.column].text = cast.text THEN "TRUE" ELSE "FALSE"

\* CASE: the first arm whose condition is true decides
RECURSIVE EvalArms(_, _, _, _)
EvalArms(S, arms, els, row) ==
    IF arms = <<>> THEN EvalElse(S, els, row)
    ELSE LET test == ArmTest(S, Head(arms))
         IN  IF test = "ERROR" THEN "ERROR"
             ELSE IF test = "TRUE" THEN Head(arms).then
             ELSE EvalArms(S, Tail(arms), els, row)

EvalSubClause(S, sub, row) == EvalArms(S, sub.arms, sub.els, row)

\* AND of the sub-clauses in order, stopping at the first that is false
RECURSIVE EvalAnd(_, _, _, _)
EvalAnd(S, clause, row, sofar) ==
    IF clause = <<>> THEN sofar
    ELSE LET v == EvalSubClause(S, Head(clause), row)
         IN  IF v = "ERROR" THEN "ERROR"
             ELSE IF v = "FALSE" THEN "FALSE"
             ELSE EvalAnd(S, Tail(clause), row, IF v = "NULL" THEN "NULL" ELSE sofar)

EvalPredicate(S, clause, row) == EvalAnd(S, clause, row, "TRUE")

\* a row passes USING / WITH CHECK only when the predicate is true
Admits(S, clause, row) == EvalPredicate(S, clause, row) = "TRUE"

SqlTypes == {"int", "text"}

\* column values of a row: NULL, or a value shown in its canonical text
ColumnValues == {Unset, Text("1"), Text("2")}

Rows == [FieldNames -> ColumnValues]

\* what a session variable may hold; every concrete text is valid input of every type in SqlTypes
SessionTexts ==
    {Unset, Text(""), Text(RlsWildcardValue("NONE")), Text(RlsWildcardValue("ALL")),
     Text("1"), Text("01")}

\* non-empty lists of distinct field names
FieldLists ==
    {l \in UNION {[1..n -> FieldNames] : n \in 1..MaxFields} :
        \A i, j \in 1..Len(l) : i # j => l[i] # l[j]}

TypeDicts(l) == UNION {[D -> SqlTypes] : D \in SUBSET Range(l)}

SessionsOver(prefix, l) ==
    {[k \in AllKeys |-> IF k[1] = prefix /\ k[2] \in Range(l) THEN g[k[2]] ELSE Unset] :
        g \in [Range(l) -> SessionTexts]}

InitClause ==
    /\ vendor = "postgresql"
    /\ MwIdle
    /\ fields \in FieldLists
    /\ field_types \in TypeDicts(fields)
    /\ session_prefix = SESSION_NAMESPACE_PREFIX
    /\ \E S \in SessionsOver(session_prefix, fields) :
          session = [c \in Threads |-> IF c = MainThread THEN S ELSE NoSession]
    /\ using_clause = <<>>
    /\ verdict = <<>>
    /\ clause_pc = "input"
    /\ MigIdle
    /\ DbIdle
    /\ Started
    /\ FmIdle

\* the policy synthesizer calls build_rls_using_clause
Build ==
    /\ clause_pc = "input"
    /\ using_clause' = build_rls_using_clause(fields, field_types, session_prefix)
    /\ clause_pc' = "built"
    /\ UNCHANGED <<fields, field_types, session_prefix, verdict>>
    /\ UNCHANGED <<mwvars, mgvars, dbvars, stvars, fmvars>>

\* PostgreSQL evaluates the policy on every row under the connection's session variables
Evaluate ==
    /\ clause_pc = "built"
    /\ verdict' = [row \in Rows |->
                      [whole |-> EvalPredicate(session[MainThread], using_clause, row),
                       sub |-> [i \in 1..Len(using_clause) |->
                                  EvalSubClause(session[MainThread], using_clause[i], row)]]]
    /\ clause_pc' = "evaluated"
    /\ UNCHANGED <<fields, field_types, session_prefix, using_clause>>
    /\ UNCHANGED <<mwvars, mgvars, dbvars, stvars, fmvars>>

NextClause == Build \/ Evaluate

SpecClause == InitClause /\ [][NextClause]_vars


(***************************************************************************)
(* The makemigrations command: operations, policy synthesis and the hook.  *)
(* A name or an SQL identifier is a sequence of text pieces, so that       *)
(* f-strings are concatenations.                                           *)
(***************************************************************************)
\* longest operation list of a migration the autodetector computes
MaxOps == 2

\* FIELD_TYPE_MAPPING.get(internal_type, "text")
FieldTypeMapping(internal_type) ==
    CASE internal_type = "IntegerField" -> "int"
      [] internal_type = "BigIntegerField" -> "bigint"
      [] internal_type = "UUIDField" -> "uuid"
      [] internal_type = "CharField" -> "text"
      [] internal_type = "BooleanField" -> "boolean"
      [] OTHER -> "text"

\* str.lower() on the model names of the batches
Lower(name) ==
    CASE name = "Item" -> "item"
      [] name = "Order" -> "order"
      [] name = "Tag" -> "tag"
      [] OTHER -> name

Field(name, internal_type) == [name |-> name, internal_type |-> internal_type]

NoSql == <<>>

\* an operation of a migration; id is the identity of the Python object
Operation(kind, name, flds, db_table) ==
    [kind |-> kind, id |-> 0, name |-> name, fields |-> flds, db_table |-> db_table,
     sql |-> NoSql, reverse_sql |-> NoSql]

\* the operations the autodetector may compute
OperationTemplates ==
    { Operation("CreateModel", "Item",
                <<Field("id", "BigAutoField"), Field("owner_id", "UUIDField"),
                  Field("tenant_id", "IntegerField")>>, <<>>),
      Operation("CreateModel", "Order",
                <<Field("tenant_id", "ForeignKey"), Field("total", "IntegerField")>>,
                <<"orders_tbl">>),
      Operation("CreateModel", "Tag",
                <<Field("id", "BigAutoField"), Field("org_id", "IntegerField")>>, <<>>),
      Operation("AddField", "Item", <<Field("note", "CharField")>>, <<>>) }

OperationLists(maxlen) == UNION {[1..n -> OperationTemplates] : n \in 0..maxlen}

\* a migration of app with the operations, each a distinct object
Migration(app, name, ops, m) ==
    [app |-> app, name |-> name,
     operations |-> [i \in 1..Len(ops) |-> [ops[i] EXCEPT !.id = 10 * m + i]]]

\* the operations of the second migration: none, or the creation of an Item table
SecondOperationLists ==
    {ops \in OperationLists(1) :
        \A i \in 1..Len(ops) : ops[i].kind = "CreateModel" /\ ops[i].name = "Item"}

\* the batches: a migration of "shop" followed by a second migration of "shop" or of "blog"
Batches ==
    { << Migration("shop", "0001_initial", ops1, 1), Migration(app2, "0002_more", ops2, 2) >> :
        ops1 \in OperationLists(MaxOps), ops2 \in SecondOperationLists, app2 \in {"shop", "blog"} }

TenantAppsChoices == {<<>>, <<"shop">>}

\* dict(operation.fields): the names of the fields
FieldsDict(operation) == {operation.fields[i].name : i \in 1..Len(operation.fields)}

FieldInstance(operation, field_name) ==
    operation.fields[CHOOSE i \in 1..Len(operation.fields) :
                        operation.fields[i].name = field_name]

AvailableFieldsTableOrder(operation, rls_fields) ==
    LET names == [i \in 1..Len(operation.fields) |-> operation.fields[i].name]
        Configured(f) == f \in Range(rls_fields)
    IN  SelectSeq(names, Configured)

\* the configured RLS_FIELDS that are fields of the table, in the configured order
AvailableFields(operation, rls_fields) ==
    LET InTable(f) == f \in FieldsDict(operation)
    IN  SelectSeq(rls_fields, InTable)

\* the order-preserving sub-lists of a list: the answers of the checkbox prompt
RECURSIVE SubLists(_)
SubLists(l) ==
    IF l = <<>> THEN {<<>>}
    ELSE LET rest == SubLists(Tail(l))
         IN  rest \cup {<<Head(l)>> \o r : r \in rest}

\* what questionary.checkbox(...).ask() does: an answer, None when cancelled, or an exception
PromptResults(available) ==
    {[kind |-> "answer", answer |-> a] : a \in SubLists(available)}
    \cup {[kind |-> "cancelled", answer |-> <<>>], [kind |-> "no_console", answer |-> <<>>]}

\* _prompt_for_fields: answer if answer is not None else []
PromptForFields(result) == IF result.kind = "answer" THEN result.answer ELSE <<>>

EnforceFieldsNoFallback(is_interactive, available, result) ==
    IF is_interactive /\ Len(available) > 0
    THEN PromptForFields(result)
    ELSE available

EnforceFieldsCancelSelectsAll(is_interactive, available, result) ==
    IF is_interactive /\ Len(available) > 0
    THEN IF result.kind \in {"no_console", "cancelled"} THEN available
         ELSE PromptForFields(result)
    ELSE available

\* enforce_fields of _add_rls_to_create_model
EnforceFields(is_interactive, available, result) ==
    IF is_interactive /\ Len(available) > 0
    THEN IF result.kind = "no_console" THEN available ELSE PromptForFields(result)
    ELSE available

\* field_types of _add_rls_to_create_model
FieldTypes(operation, enforce_fields) ==
    [f \in Range(enforce_fields) |->
        FieldTypeMapping(FieldInstance(operation, f).internal_type)]

DbTableDefaultOnly(app_label, operation) == <<app_label, "_", Lower(operation.name)>>

\* options.get("db_table"), else f"{app_label}_{model_name.lower()}"
DbTable(app_label, operation) ==
    IF operation.db_table # <<>> THEN operation.db_table
    ELSE <<app_label, "_", Lower(operation.name)>>

\* f"{db_table}_rls_policy"
PolicyName(db_table) == db_table \o <<"_rls_policy">>

Statement(verb, policy, table, using, check) ==
    [verb |-> verb, policy |-> policy, table |-> table, using |-> using, check |-> check]

SqlLinesNoDrop(policy_name, db_table, clause) ==
    << Statement("CREATE POLICY FOR ALL", policy_name, db_table, clause, clause),
       Statement("ENABLE ROW LEVEL SECURITY", <<>>, db_table, <<>>, <<>>),
       Statement("FORCE ROW LEVEL SECURITY", <<>>, db_table, <<>>, <<>>) >>

\* sql_lines of _add_rls_to_create_model
SqlLines(policy_name, db_table, clause) ==
    << Statement("DROP POLICY IF EXISTS", policy_name, db_table, <<>>, <<>>),
       Statement("CREATE POLICY FOR ALL", policy_name, db_table, clause, clause),
       Statement("ENABLE ROW LEVEL SECURITY", <<>>, db_table, <<>>, <<>>),
       Statement("FORCE ROW LEVEL SECURITY", <<>>, db_table, <<>>, <<>>) >>

ReverseSqlLinesKeepPolicy(policy_name, db_table) ==
    << Statement("NO FORCE ROW LEVEL SECURITY", <<>>, db_table, <<>>, <<>>),
       Statement("DISABLE ROW LEVEL SECURITY", <<>>, db_table, <<>>, <<>>) >>

\* reverse_sql_lines of _add_rls_to_create_model
ReverseSqlLines(policy_name, db_table) ==
    << Statement("NO FORCE ROW LEVEL SECURITY", <<>>, db_table, <<>>, <<>>),
       Statement("DISABLE ROW LEVEL SECURITY", <<>>, db_table, <<>>, <<>>),
       Statement("DROP POLICY IF EXISTS", policy_name, db_table, <<>>, <<>>) >>

\* migrations.RunSQL(sql, reverse_sql) built for a create-table operation
RunSQL(app_label, operation, enforce_fields, prefix) ==
    LET db_table == DbTable(app_label, operation)
        policy_name == PolicyName(db_table)
        clause == build_rls_using_clause(enforce_fields,
                                         FieldTypes(operation, enforce_fields), prefix)
    IN  [kind |-> "RunSQL", id |-> 100 + operation.id, name |-> "", fields |-> <<>>,
         db_table |-> <<>>,
         sql |-> SqlLines(policy_name, db_table, clause),
         reverse_sql |-> ReverseSqlLines(policy_name, db_table)]

\* list.index(x): the first position holding x
ListIndex(ops, operation) == CHOOSE i \in 1..Len(ops) : ops[i] = operation /\
                                 \A j \in 1..(i - 1) : ops[j] # operation

ListInsertOverwriting(ops, i, x) ==
    [j \in 1..(IF i + 1 > Len(ops) THEN i + 1 ELSE Len(ops)) |->
        IF j = i + 1 THEN x ELSE ops[j]]

\* list.insert(i, x) with the 0-based i: x comes to stand at the 1-based position i + 1
ListInsert(ops, i, x) ==
    [j \in 1..(Len(ops) + 1) |->
        IF j <= i THEN ops[j] ELSE IF j = i + 1 THEN x ELSE ops[j - 1]]

InsertPolicyAtEnd(ops, operation, migration_op) == Append(ops, migration_op)

\* operation_index = operations.index(operation); operations.insert(operation_index + 1, op)
InsertPolicy(ops, operation, migration_op) ==
    ListInsert(ops, (ListIndex(ops, operation) - 1) + 1, migration_op)

(***************************************************************************)
(* The text of a migration file and _format_migration_sql.  A text is a    *)
(* sequence of characters: the double quote DQ, the single quote SQ, the   *)
(* backslash BS, the letter n, the line feed NL, any other character "a",  *)
(* the sixteen spaces IND of an indented line, and the words "sql=" and    *)
(* "reverse_sql=" standing at a word boundary.                             *)
(***************************************************************************)
DQ == "DQ"

SQ == "SQ"

BS == "BS"

NL == "NL"

IND == "IND"

Keywords == {"sql=", "reverse_sql="}

\* the concatenation of a sequence of texts
RECURSIVE Flatten(_)
Flatten(texts) ==
    IF Len(texts) = 0 THEN <<>>
    ELSE IF Len(texts) = 1 THEN texts[1]
    ELSE LET half == Len(texts) \div 2
         IN  Flatten(SubSeq(texts, 1, half)) \o Flatten(SubSeq(texts, half + 1, Len(texts)))

\* sep.join(texts)
Join(sep, texts) ==
    Flatten([i \in 1..(2 * Len(texts) - 1) |->
                IF i % 2 = 1 THEN texts[(i + 1) \div 2] ELSE sep])

\* a quoted SQL identifier inside an f-string: "{name}"
Quoted(q) == <<q, "a", q>>

\* one WHEN line of the CASE expression, or its ELSE line
ArmText(arm) ==
    <<"a">> \o Quoted(SQ) \o <<"a">> \o
    (IF arm.op = "=" THEN (IF arm.literal = "" THEN <<SQ, SQ>> ELSE Quoted(SQ)) \o <<"a">>
     ELSE <<>>)

ElseText(els) == <<"a">> \o Quoted(SQ) \o <<"a">>

\* the text of the clause of one field: "(", "CASE", the WHEN lines, ELSE, "END", ")"
SubClauseText(sub) ==
    Join(<<NL>>, <<<<"a">>, <<"a">>>> \o [i \in 1..Len(sub.arms) |-> ArmText(sub.arms[i])]
                 \o <<ElseText(sub.els), <<"a">>, <<"a">>>>)

\* " AND\n".join(clauses)
ClauseText(clause) ==
    Join(<<"a", NL>>, [i \in 1..Len(clause) |-> SubClauseText(clause[i])])

\* the text of one statement of sql_lines or reverse_sql_lines
StatementText(stmt) ==
    IF stmt.verb = "DROP POLICY IF EXISTS"
    THEN <<"a">> \o Quoted(DQ) \o <<"a">> \o Quoted(DQ) \o <<"a">>
    ELSE IF stmt.verb = "CREATE POLICY FOR ALL"
    THEN <<"a">> \o Quoted(DQ) \o <<"a">> \o Quoted(DQ) \o <<"a">> \o ClauseText(stmt.using)
         \o <<"a">> \o ClauseText(stmt.check) \o <<"a">>
    ELSE <<"a">> \o Quoted(DQ) \o <<"a">>

\* '\n'.join(sql_lines)
SqlText(sql) == Join(<<NL>>, [i \in 1..Len(sql) |-> StatementText(sql[i])])

InText(c, text) == \E i \in 1..Len(text) : text[i] = c

\* repr(str): the quote Python chooses and the escapes it writes
ReprQuote(text) == IF InText(SQ, text) /\ ~InText(DQ, text) THEN DQ ELSE SQ

Repr(text) ==
    LET q == ReprQuote(text)
        Written(c) == IF c = BS THEN <<BS, BS>>
                      ELSE IF c = NL THEN <<BS, "n">>
                      ELSE IF c = q THEN <<BS, q>>
                      ELSE <<c>>
    IN  <<q>> \o Flatten([i \in 1..Len(text) |-> Written(text[i])]) \o <<q>>

\* MigrationWriter: the text written for one operation
OperationText(operation) ==
    IF operation.kind = "RunSQL"
    THEN <<"a", "sql=">> \o Repr(SqlText(operation.sql)) \o
         <<"a", "reverse_sql=">> \o Repr(SqlText(operation.reverse_sql)) \o <<"a">>
    ELSE <<"a">>

\* MigrationWriter: the file written for a migration
MigrationFile(migration) ==
    [exists |-> TRUE,
     content |-> <<"a">> \o
                 Flatten([i \in 1..Len(migration.operations) |->
                             OperationText(migration.operations[i])])]

NoFile == [exists |-> FALSE, content |-> <<>>]

\* the first position from p on that holds a character of chars, Len(text) + 1 if none
NextIn(text, p, chars) ==
    IF \A j \in p..Len(text) : text[j] \notin chars THEN Len(text) + 1
    ELSE CHOOSE j \in p..Len(text) :
             text[j] \in chars /\ \A k \in p..(j - 1) : text[k] \notin chars

\* the number of characters c in a row that end just before position j, counted
\* from p on
RunBefore(text, p, j, c) ==
    LET k == CHOOSE k \in (p - 1)..(j - 1) :
                 /\ k = p - 1 \/ text[k] # c
                 /\ \A l \in (k + 1)..(j - 1) : text[l] = c
    IN  j - 1 - k

\* the character at j is taken by a backslash before it: backslashes pair up
\* from the left
Escaped(text, p, j) == RunBefore(text, p, j, BS) % 2 = 1

\* the quote q at j starts an iteration: of the quotes in a row that end at j,
\* the escaped first one apart, it is the first, the third, ...
OpensAt(text, p, q, j) ==
    /\ text[j] = q
    /\ LET r == RunBefore(text, p, j + 1, q)
       IN  (IF Escaped(text, p, j - r + 1) THEN r - 1 ELSE r) % 2 = 1

\* the quoted-string alternatives of pattern, tried after the opening quote q:
\* (?:[^q\\]|\\.|qq)* followed by q, from position p.  The result is the position
\* of the closing quote, 0 when there is no match.  The star is greedy: a pair qq
\* is taken as one more iteration, and the first quote that starts no pair closes
\* the match.  The iterations stop at a backslash that no character other than
\* a line feed follows and at the end of the text; the first quote of the last
\* pair taken before that is then the closing quote.
ScanQuoted(text, q, p) ==
    LET n == Len(text)
        Stops(j) == text[j] = BS /\ ~Escaped(text, p, j) /\ (j = n \/ text[j + 1] = NL)
        Closes(j) == OpensAt(text, p, q, j) /\ (j = n \/ text[j + 1] # q)
        stop == IF \A j \in p..n : ~Stops(j) THEN n + 1
                ELSE CHOOSE j \in p..n : Stops(j) /\ \A k \in p..(j - 1) : ~Stops(k)
        close == IF \A j \in p..(stop - 1) : ~Closes(j) THEN 0
                 ELSE CHOOSE j \in p..(stop - 1) :
                          Closes(j) /\ \A k \in p..(j - 1) : ~Closes(k)
        pairs == {j \in p..(stop - 1) : OpensAt(text, p, q, j)}
    IN  IF close > 0 THEN close
        ELSE IF pairs = {} THEN 0
        ELSE CHOOSE j \in pairs : \A k \in pairs : k <= j

\* pattern matched at position i: the position of the last character of the
\* match, 0 when there is no match
PatternMatch(text, i) ==
    IF text[i] \notin Keywords \/ i = Len(text) THEN 0
    ELSE IF text[i + 1] \in {DQ, SQ} THEN ScanQuoted(text, text[i + 1], i + 2)
    ELSE 0

\* '\\n' in quoted
HasEscapedNewline(quoted) ==
    \E j \in 1..(Len(quoted) - 1) : quoted[j] = BS /\ quoted[j + 1] = "n"

ParseError == [ok |-> FALSE, value |-> <<>>]

\* the characters an escape sequence stands for
Unescape(c) ==
    IF c = "n" THEN <<NL>>
    ELSE IF c \in {BS, DQ, SQ} THEN <<c>>
    ELSE IF c = NL THEN <<>>
    ELSE <<BS, c>>

\* the characters read, followed by what the rest of the text gives
Read(piece, rest) ==
    IF rest.ok THEN [ok |-> TRUE, value |-> piece \o rest.value] ELSE ParseError

\* Python reads the string literals of quoted from position p: a literal is
\* opened by a quote q, or by three of them, and closed by the first q (three q)
\* that no backslash takes; a line feed that no backslash takes ends the line
\* of a literal that is not triple-quoted.  The value is what the characters of
\* the bodies stand for.
RECURSIVE ParseLiterals(_, _)
ParseBody(quoted, p, q, triple) ==
    LET n == Len(quoted)
        Ends(j) == /\ quoted[j] = q
                   /\ ~Escaped(quoted, p, j)
                   /\ triple => j + 2 <= n /\ quoted[j + 1] = q /\ quoted[j + 2] = q
        end == IF \A j \in p..n : ~Ends(j) THEN n + 1
               ELSE CHOOSE j \in p..n : Ends(j) /\ \A k \in p..(j - 1) : ~Ends(k)
        Piece(j) == IF Escaped(quoted, p, j) THEN Unescape(quoted[j])
                    ELSE IF quoted[j] = BS THEN <<>>
                    ELSE <<quoted[j]>>
    IN  IF end > n THEN ParseError
        ELSE IF ~triple /\ \E j \in p..(end - 1) : quoted[j] = NL /\ ~Escaped(quoted, p, j)
             THEN ParseError
        ELSE Read(Flatten([k \in 1..(end - p) |-> Piece(p + k - 1)]),
                  ParseLiterals(quoted, IF triple THEN end + 3 ELSE end + 1))

ParseLiterals(quoted, p) ==
    IF p > Len(quoted) THEN [ok |-> TRUE, value |-> <<>>]
    ELSE IF quoted[p] \notin {DQ, SQ} THEN ParseError
    ELSE IF p + 2 <= Len(quoted) /\ quoted[p + 1] = quoted[p] /\ quoted[p + 2] = quoted[p]
         THEN ParseBody(quoted, p + 3, quoted[p], TRUE)
    ELSE ParseBody(quoted, p + 1, quoted[p], FALSE)

\* ast.literal_eval(quoted): adjacent string literals are one string
LiteralEval(quoted) == ParseLiterals(quoted, 1)

\* content.split('\n'): the pieces between the line feeds
Split(content) ==
    LET feeds == {j \in 1..Len(content) : content[j] = NL}
        Feed(k) == IF k = 0 THEN 0
                   ELSE IF k > Cardinality(feeds) THEN Len(content) + 1
                   ELSE CHOOSE j \in feeds : Cardinality({f \in feeds : f < j}) = k - 1
    IN  [k \in 1..(Cardinality(feeds) + 1) |-> SubSeq(content, Feed(k - 1) + 1, Feed(k) - 1)]

\* format_match(m) for the parameter param and the matched literal quoted
format_match(param, quoted) ==
    IF ~HasEscapedNewline(quoted) THEN <<param>> \o quoted
    ELSE LET parsed == LiteralEval(quoted)
         IN  IF ~parsed.ok THEN <<param>> \o quoted
             ELSE LET lines == Split(parsed.value)
                  IN  IF Len(lines) = 1
                      THEN <<param, DQ, DQ, DQ>> \o parsed.value \o <<DQ, DQ, DQ>>
                      ELSE <<param, DQ, DQ, DQ>> \o lines[1] \o
                           Flatten([i \in 1..(Len(lines) - 1) |->
                                       <<NL, IND>> \o lines[i + 1]]) \o
                           <<DQ, DQ, DQ>>

\* re.sub(pattern, format_match, content), from position i: the text up to the
\* next sql= or reverse_sql= is copied; a match is replaced and the scan goes on
\* after it
RECURSIVE ReSub(_, _)
ReSub(content, i) ==
    LET k == NextIn(content, i, Keywords)
        e == IF k > Len(content) THEN 0 ELSE PatternMatch(content, k)
    IN  IF k > Len(content) THEN SubSeq(content, i, Len(content))
        ELSE IF e = 0 THEN SubSeq(content, i, k) \o ReSub(content, k + 1)
        ELSE SubSeq(content, i, k - 1) \o format_match(content[k], SubSeq(content, k + 1, e))
             \o ReSub(content, e + 1)

\* the content _format_migration_sql leaves in one migration file
NewContent(file) == IF file.exists THEN ReSub(file.content, 1) ELSE file.content

\* the file is written when new_content differs from content
Rewritten(file) == file.exists /\ NewContent(file) # file.content

\* _format_migration_sql over the files of the batch
format_migration_sql(fs) == [m \in 1..Len(fs) |-> [fs[m] EXCEPT !.content = NewContent(fs[m])]]

WritesAfter(fs, counts) ==
    [m \in 1..Len(fs) |-> IF Rewritten(fs[m]) THEN counts[m] + 1 ELSE counts[m]]

HookCallsPersistFirst ==
    <<"write_migration_files", "inject_rls_operations", "_format_migration_sql">>

\* the calls of Command.write_migration_files, in the order of its body
HookCalls == <<"inject_rls_operations", "write_migration_files", "_format_migration_sql">>

\* the call write_migration_files is at
AtCall(call) == hook_i \in 1..Len(HookCalls) /\ HookCalls[hook_i] = call

Message(style, text, id) == [style |-> style, text |-> text, id |-> id]

Selected(id, available, result, enforce) ==
    [id |-> id, available |-> available, result |-> result, enforce |-> enforce]

NotPrompted == [kind |-> "not_prompted", answer |-> <<>>]

InitMig ==
    /\ vendor = "postgresql"
    /\ session = [c \in Threads |-> NoSession]
    /\ MwIdle
    /\ ClauseIdle
    /\ DbIdle
    /\ Started
    /\ FmIdle
    /\ changes \in Batches
    /\ original = changes
    /\ tenant_apps \in TenantAppsChoices
    /\ interactive \in BOOLEAN
    /\ hook_i = 0
    /\ inject_pc = "idle"
    /\ cur = [m |-> 1, o |-> 1]
    /\ persisted = <<>>
    /\ stdout = <<>>
    /\ selection = <<>>
    /\ phase_log = <<>>

\* the command has computed the batch and calls write_migration_files
WriteMigrationFiles ==
    /\ proc = "running"
    /\ hook_i = 0
    /\ changes # <<>>
    /\ hook_i' = 1
    /\ UNCHANGED <<changes, original, tenant_apps, interactive, inject_pc, cur, persisted,
                   stdout, selection, phase_log>>
    /\ UNCHANGED <<mwvars, clvars, dbvars, stvars, fmvars>>

\* inject_rls_operations up to its loops; it returns at once when TENANT_APPS is empty
InjectBegin ==
    /\ AtCall("inject_rls_operations")
    /\ inject_pc = "idle"
    /\ phase_log' = Append(phase_log, "inject_rls_operations")
    /\ IF tenant_apps = <<>>
       THEN /\ inject_pc' = "returned"
            /\ hook_i' = hook_i + 1
       ELSE /\ inject_pc' = "loop"
            /\ UNCHANGED hook_i
    /\ cur' = [m |-> 1, o |-> 1]
    /\ UNCHANGED <<changes, original, tenant_apps, interactive, persisted, stdout, selection>>
    /\ UNCHANGED <<mwvars, clvars, dbvars, stvars, fmvars>>

\* the outer loops: an app that is not a tenant app is skipped; a finished migration is left
NextMigration ==
    /\ inject_pc = "loop"
    /\ cur.m <= Len(changes)
    /\ \/ changes[cur.m].app \notin Range(tenant_apps)
       \/ cur.o > Len(changes[cur.m].operations)
    /\ cur' = [m |-> cur.m + 1, o |-> 1]
    /\ UNCHANGED <<changes, original, tenant_apps, interactive, hook_i, inject_pc, persisted,
                   stdout, selection, phase_log>>
    /\ UNCHANGED <<mwvars, clvars, dbvars, stvars, fmvars>>

\* the inner loop on an operation that is no CreateModel
VisitOther ==
    /\ inject_pc = "loop"
    /\ cur.m <= Len(changes)
    /\ changes[cur.m].app \in Range(tenant_apps)
    /\ cur.o <= Len(changes[cur.m].operations)
    /\ changes[cur.m].operations[cur.o].kind # "CreateModel"
    /\ cur' = [cur EXCEPT !.o = @ + 1]
    /\ UNCHANGED <<changes, original, tenant_apps, interactive, hook_i, inject_pc, persisted,
                   stdout, selection, phase_log>>
    /\ UNCHANGED <<mwvars, clvars, dbvars, stvars, fmvars>>

\* the inner loop on a CreateModel: the whole of _add_rls_to_create_model, the
\* prompt giving result when it is shown
AddRlsToCreateModel(result) ==
    /\ inject_pc = "loop"
    /\ cur.m <= Len(changes)
    /\ changes[cur.m].app \in Range(tenant_apps)
    /\ cur.o <= Len(changes[cur.m].operations)
    /\ changes[cur.m].operations[cur.o].kind = "CreateModel"
    /\ LET migration == changes[cur.m]
           operation == migration.operations[cur.o]
           available == AvailableFields(operation, RLS_FIELDS)
           prompted == interactive /\ Len(available) > 0
           enforce == EnforceFields(interactive, available, result)
           header == IF prompted
                     THEN <<Message("PLAIN", "RLS Configuration", operation.id)>>
                     ELSE <<>>
           fallback == IF prompted /\ result.kind = "no_console"
                       THEN <<Message("WARNING", "Cannot prompt interactively",
                                      operation.id)>>
                       ELSE <<>>
       IN  /\ result = NotPrompted <=> ~prompted
           /\ prompted => result \in PromptResults(available)
           /\ IF available = <<>>
              THEN UNCHANGED <<changes, stdout, selection>>
              ELSE /\ selection' = Append(selection,
                                          Selected(operation.id, available, result, enforce))
                   /\ IF enforce = <<>>
                      THEN /\ stdout' = stdout \o header \o fallback \o
                                        <<Message("WARNING", "Skipping RLS", operation.id)>>
                           /\ UNCHANGED changes
                      ELSE /\ stdout' = stdout \o header \o fallback \o
                                        <<Message("SUCCESS", "Added policy", operation.id)>>
                           /\ changes' = [changes EXCEPT ![cur.m].operations =
                                  InsertPolicy(@, operation,
                                               RunSQL(migration.app, operation, enforce,
                                                      SESSION_NAMESPACE_PREFIX))]
    /\ cur' = [cur EXCEPT !.o = @ + 1]
    /\ UNCHANGED <<original, tenant_apps, interactive, hook_i, inject_pc, persisted,
                   phase_log>>
    /\ UNCHANGED <<mwvars, clvars, dbvars, stvars, fmvars>>

\* the loops are exhausted: inject_rls_operations returns
InjectReturn ==
    /\ inject_pc = "loop"
    /\ cur.m > Len(changes)
    /\ inject_pc' = "returned"
    /\ hook_i' = hook_i + 1
    /\ UNCHANGED <<changes, original, tenant_apps, interactive, cur, persisted, stdout,
                   selection, phase_log>>
    /\ UNCHANGED <<mwvars, clvars, dbvars, stvars, fmvars>>

\* super().write_migration_files(changes): the batch is written as it stands
Persist ==
    /\ AtCall("write_migration_files")
    /\ persisted' = changes
    /\ phase_log' = Append(phase_log, "write_migration_files")
    /\ hook_i' = hook_i + 1
    /\ UNCHANGED <<changes, original, tenant_apps, interactive, inject_pc, cur, stdout,
                   selection>>
    /\ UNCHANGED <<mwvars, clvars, dbvars, stvars, fmvars>>

\* the call of _format_migration_sql: it changes no operation of the batch; what it
\* does to the text of the written files is FormatFiles below, on the files as text
FormatMigrationSql ==
    /\ AtCall("_format_migration_sql")
    /\ phase_log' = Append(phase_log, "_format_migration_sql")
    /\ hook_i' = hook_i + 1
    /\ UNCHANGED <<changes, original, tenant_apps, interactive, inject_pc, cur, persisted,
                   stdout, selection>>
    /\ UNCHANGED <<mwvars, clvars, dbvars, stvars, fmvars>>

NextMig ==
    \/ WriteMigrationFiles
    \/ InjectBegin
    \/ NextMigration
    \/ VisitOther
    \/ \E result \in PromptResults(RLS_FIELDS) \cup {NotPrompted} : AddRlsToCreateModel(result)
    \/ InjectReturn
    \/ Persist
    \/ FormatMigrationSql

SpecMig == InitMig /\ [][NextMig]_vars

(***************************************************************************)
(* Properties of the middleware.                                           *)
(***************************************************************************)
Pg == vendor = "postgresql"

ConfiguredFields == {"tenant_id", "owner_id"}

RlsKey(f) == <<"rls", f>>

AllParam == [type |-> "str", v |-> "SPECIAL_CASE_ALL"]

NoneParam == [type |-> "str", v |-> "SPECIAL_CASE_NONE"]

\* the request of thread t has executed SET rls.f = param
Assigned(t, f, param) ==
    \E j \in 1..Len(executed[t]) : executed[t][j] = [key |-> RlsKey(f), param |-> param]

\* the request of thread t has executed some SET rls.f
AssignedSome(t, f) ==
    \E j \in 1..Len(executed[t]) : executed[t][j].key = RlsKey(f)

\* C1: on PostgreSQL, a request whose bypass predicate returns true has, when
\* process_request returns, executed SET <prefix>.<field> = "ALL" sentinel for every
\* field of RLS_FIELDS, and at no point of the request is REQUEST_RESOLVER called.
C1_BypassSetsAll ==
    \A t \in Threads :
        (Pg /\ request[t].bypass) =>
            /\ resolverCalls[t] = 0
            /\ pc[t] = "view" => \A f \in ConfiguredFields : Assigned(t, f, AllParam)

C1_Witness ==
    /\ Pg
    /\ pc[MainThread] = "view"
    /\ request[MainThread].bypass
    /\ request[MainThread].resolved # <<>>
    /\ Len(executed[MainThread]) = 2

\* C3: once the APPLY step of a request has finished, no configured field's session
\* variable on the request's connection still holds a value assigned while an
\* earlier request was handled.
C3_NoValueOfEarlierRequest ==
    \A t \in Threads :
        (Pg /\ pc[t] = "view") => \A f \in ConfiguredFields : ~stale[t][RlsKey(f)]

\* the value C4 expects for field f of a resolver mapping
C4_Expected(resolved, f) ==
    IF \A i \in 1..Len(resolved) : resolved[i].field # f
    THEN NoneParam
    ELSE LET value == (CHOOSE i \in 1..Len(resolved) : resolved[i].field = f)
             item == resolved[value].value
         IN  IF item.type = "NoneType" THEN NoneParam
             ELSE IF item.type = "RlsWildcard"
                  THEN (IF item.v = "ALL" THEN AllParam ELSE NoneParam)
             ELSE IF item.type = "UUID" THEN [type |-> "str", v |-> item.v]
             ELSE item

\* C4: for a request that is not bypassed, when process_request returns every
\* configured field has been assigned: the NONE sentinel if the resolver gave it
\* None or left it out, the sentinel literal of a wildcard, the string form of a
\* UUID, any other value unchanged.
C4_Normalization ==
    \A t \in Threads :
        (Pg /\ pc[t] = "view" /\ ~request[t].bypass) =>
            \A f \in ConfiguredFields : Assigned(t, f, C4_Expected(request[t].resolved, f))

\* C5: when the resolver's mapping names a field that is not configured,
\* process_request logs one warning, executes no SET for that field (its variable
\* stays as it was), executes a SET for every returned field that is configured,
\* and returns.
C5_UnexpectedFieldIgnored ==
    \A t \in Threads :
        LET resolved == request[t].resolved
            returned == {resolved[i].field : i \in 1..Len(resolved)}
        IN  (Pg /\ ~request[t].bypass /\ returned \ ConfiguredFields # {}) =>
                /\ \A j \in 1..Len(executed[t]) : executed[t][j].key[2] \in ConfiguredFields
                /\ \A f \in returned \ ConfiguredFields : session[t][RlsKey(f)].isnull
                /\ pc[t] \in {"apply", "view"} => warnings[t] = 1
                /\ pc[t] = "view" =>
                      \A f \in returned \cap ConfiguredFields : AssignedSome(t, f)

C5_Witness ==
    /\ Pg
    /\ pc[MainThread] = "view"
    /\ ~request[MainThread].bypass
    /\ Len(request[MainThread].resolved) = 2
    /\ request[MainThread].resolved[1].field = "org_id"
    /\ request[MainThread].resolved[2].field = "tenant_id"
    /\ Len(executed[MainThread]) = 1

\* C8: on PostgreSQL, whenever an application query of a request runs,
\* process_request has returned and every assignment of the request (one for each
\* configured field of its context) has been executed on the connection.
C8_ApplyBeforeQueries ==
    [][\A t \in Threads :
          (Pg /\ queries'[t] > queries[t]) =>
              /\ pc[t] = "view"
              /\ \A i \in 1..Len(rls_context[t]) :
                    rls_context[t][i].field \in ConfiguredFields =>
                        /\ AssignedSome(t, rls_context[t][i].field)
                        /\ ~session[t][RlsKey(rls_context[t][i].field)].isnull]_vars

C8_Witness ==
    /\ Pg
    /\ queries[MainThread] = 1
    /\ Len(executed[MainThread]) = 2

\* C9: a session variable of a connection is assigned only by requests handled
\* on that connection (thread c owns connection c); what a request's queries see
\* was never written by a request on another connection.
C9_ConnectionIsolation ==
    \A c \in Threads : \A k \in AllKeys : writer[c][k] \subseteq {c}

C9_Witness ==
    /\ Pg
    /\ pc["t1"] = "view" /\ pc["t2"] = "apply"
    /\ session["t1"][RlsKey("tenant_id")] = Text("1")
    /\ session["t2"][RlsKey("tenant_id")] = Text("SPECIAL_CASE_ALL")
    /\ queries["t1"] = 1

\* C10: on a backend other than PostgreSQL, process_request calls neither the
\* bypass predicate nor the resolver, opens no cursor, executes no SET, logs
\* nothing and leaves every connection's session variables as they were.
C10_NoOpOnOtherBackends ==
    ~Pg =>
        /\ session = [c \in Threads |-> NoSession]
        /\ \A t \in Threads :
              /\ bypassCalls[t] = 0
              /\ resolverCalls[t] = 0
              /\ cursors[t] = 0
              /\ executed[t] = <<>>
              /\ warnings[t] = 0
              /\ pc[t] \in {"idle", "process_request", "view"}

C10_Witness ==
    /\ ~Pg
    /\ pc[MainThread] = "view"
    /\ request[MainThread].bypass
    /\ queries[MainThread] = 1

(***************************************************************************)
(* Properties of the policy predicate.                                     *)
(***************************************************************************)
\* the session variable of the i-th protected field
VarOf(i) == session[MainThread][<<session_prefix, fields[i]>>]

Denying(v) == v.isnull \/ v.text = "" \/ v.text = "SPECIAL_CASE_NONE"

Concrete(v) == ~Denying(v) /\ v.text # "SPECIAL_CASE_ALL"

C6_AllAdmits ==
    clause_pc = "evaluated" =>
        /\ \A i \in 1..Len(fields) :
              VarOf(i) = Text("SPECIAL_CASE_ALL") =>
                  \A row \in Rows : verdict[row].sub[i] = "TRUE"
        /\ (\A i \in 1..Len(fields) : VarOf(i) = Text("SPECIAL_CASE_ALL")) =>
              \A row \in Rows : verdict[row].whole = "TRUE"

C6_Witness ==
    /\ clause_pc = "evaluated"
    /\ Len(fields) = 2
    /\ \A i \in 1..2 : VarOf(i) = Text("SPECIAL_CASE_ALL")

\* the session text as a value of the field's SQL type (absent from field_types: text)
C7_CastValue(i) ==
    LET ty == IF fields[i] \in DOMAIN field_types THEN field_types[fields[i]] ELSE "text"
    IN  IF ty = "int" /\ VarOf(i).text = "01" THEN "1" ELSE VarOf(i).text

MaxSteps == 3

\* a table right after CREATE TABLE: no policy, row security neither enabled nor forced
NewTable(table) ==
    [table |-> table, policies |-> {}, enabled |-> FALSE, forced |-> FALSE, error |-> FALSE]

Failed(state) == [state EXCEPT !.error = TRUE]

\* PostgreSQL runs one statement of sql_lines or reverse_sql_lines on the table
Exec(stmt, state) ==
    IF state.error \/ stmt.table # state.table THEN Failed(state)
    ELSE IF stmt.verb = "DROP POLICY IF EXISTS"
         THEN [state EXCEPT !.policies = @ \ {stmt.policy}]
    ELSE IF stmt.verb = "CREATE POLICY FOR ALL"
         THEN IF stmt.policy \in state.policies THEN Failed(state)
              ELSE [state EXCEPT !.policies = @ \cup {stmt.policy}]
    ELSE IF stmt.verb = "ENABLE ROW LEVEL SECURITY" THEN [state EXCEPT !.enabled = TRUE]
    ELSE IF stmt.verb = "FORCE ROW LEVEL SECURITY" THEN [state EXCEPT !.forced = TRUE]
    ELSE IF stmt.verb = "NO FORCE ROW LEVEL SECURITY" THEN [state EXCEPT !.forced = FALSE]
    ELSE IF stmt.verb = "DISABLE ROW LEVEL SECURITY" THEN [state EXCEPT !.enabled = FALSE]
    ELSE Failed(state)

RECURSIVE ExecFrom(_, _, _)
ExecFrom(sql, i, state) ==
    IF i > Len(sql) THEN state ELSE ExecFrom(sql, i + 1, Exec(sql[i], state))

\* the statements of a RunSQL run in order in one transaction: a failing
\* statement rolls the transaction back
RunStatements(sql, state) ==
    LET begin == [state EXCEPT !.error = FALSE]
        final == ExecFrom(sql, 1, begin)
    IN  IF final.error THEN Failed(begin) ELSE final

\* the create-table operations that get a policy, with the selected fields
PolicyInputs ==
    UNION {{[app |-> app, operation |-> [op EXCEPT !.id = 11], enforce_fields |-> enforce] :
               app \in {"shop", "blog"},
               enforce \in SubLists(AvailableFields(op, RLS_FIELDS)) \ {<<>>}} :
           op \in {t \in OperationTemplates : t.kind = "CreateModel"}}

\* the migration created the table and is about to run the policy operation
InitRoundTrip ==
    /\ vendor = "postgresql"
    /\ session = [c \in Threads |-> NoSession]
    /\ MwIdle
    /\ ClauseIdle
    /\ MigIdle
    /\ Started
    /\ FmIdle
    /\ \E input \in PolicyInputs :
          /\ policy_op = RunSQL(input.app, input.operation, input.enforce_fields,
                                SESSION_NAMESPACE_PREFIX)
          /\ db = NewTable(DbTable(input.app, input.operation))
    /\ db_history = <<>>
    /\ steps = <<>>

\* RunSQL.database_forwards: the forward statements
Migrate ==
    /\ Len(steps) < MaxSteps
    /\ db' = RunStatements(policy_op.sql, db)
    /\ db_history' = Append(db_history, db')
    /\ steps' = Append(steps, "forward")
    /\ UNCHANGED <<policy_op, mwvars, clvars, mgvars, stvars, fmvars>>

\* RunSQL.database_backwards: the reverse statements
Unmigrate ==
    /\ Len(steps) < MaxSteps
    /\ db' = RunStatements(policy_op.reverse_sql, db)
    /\ db_history' = Append(db_history, db')
    /\ steps' = Append(steps, "reverse")
    /\ UNCHANGED <<policy_op, mwvars, clvars, mgvars, stvars, fmvars>>

NextRoundTrip == Migrate \/ Unmigrate

SpecRoundTrip == InitRoundTrip /\ [][NextRoundTrip]_vars

(***************************************************************************)
(* Start of the process: the settings are loaded and validated.            *)
(***************************************************************************)
SettingsValidUserOnly(c) == ~(c.USE_DB_MIGRATION_USER /\ ~c.MIGRATION_USER)

\* the validation of settings.py: the module raises when it does not hold
SettingsValid(c) ==
    ~(c.USE_DB_MIGRATION_USER /\ (~c.MIGRATION_USER \/ ~c.MIGRATION_PASSWORD))

\* the resolver outputs of the requests a started process serves
BootOutputs == Mappings({PyInt("1")}, 1)

\* the batches the makemigrations command of a started process computes
BootBatches ==
    {b \in Batches : /\ Len(b[1].operations) = 1
                     /\ b[1].operations[1].name = "Item"
                     /\ Len(b[2].operations) = 0
                     /\ b[2].app = "shop"}

\* the process is about to start with some DJANGO_RLS settings
InitBoot ==
    /\ proc = "boot"
    /\ cfg \in Settings
    /\ vendor \in Vendors
    /\ session = [c \in Threads |-> NoSession]
    /\ MwIdle
    /\ ClauseIdle
    /\ DbIdle
    /\ FmIdle
    /\ changes \in BootBatches
    /\ original = changes
    /\ tenant_apps = <<"shop">>
    /\ interactive \in BOOLEAN
    /\ hook_i = 0
    /\ inject_pc = "idle"
    /\ cur = [m |-> 1, o |-> 1]
    /\ persisted = <<>>
    /\ stdout = <<>>
    /\ selection = <<>>
    /\ phase_log = <<>>

\* django.setup(): DjangoRLSConfig.ready() runs the migration hook set-up, which
\* loads django_rls.settings; an exception of the validation ends the process
Startup ==
    /\ proc = "boot"
    /\ proc' = IF SettingsValid(cfg) THEN "running" ELSE "failed"
    /\ UNCHANGED <<cfg, mwvars, clvars, mgvars, dbvars, fmvars>>

\* the process is a server handling requests or the makemigrations command
NextBoot ==
    \/ Startup
    \/ \E b \in BOOLEAN, r \in BootOutputs : hook_i = 0 /\ StartRequest(MainThread, b, r)
    \/ SkipVendor(MainThread)
    \/ Resolve(MainThread)
    \/ SetVar(MainThread)
    \/ Return(MainThread)
    \/ Query(MainThread)
    \/ Finish(MainThread)
    \/ MwIdle /\ WriteMigrationFiles
    \/ InjectBegin
    \/ NextMigration
    \/ VisitOther
    \/ \E result \in PromptResults(RLS_FIELDS) \cup {NotPrompted} : AddRlsToCreateModel(result)
    \/ InjectReturn
    \/ Persist
    \/ FormatMigrationSql

SpecBoot == InitBoot /\ [][NextBoot]_vars

(***************************************************************************)
(* _format_migration_sql on the files of a batch.                          *)
(***************************************************************************)
MaxLiteralLen == 5

MaxRuns == 2

\* the texts of at most maxlen characters
Texts(maxlen) == UNION {[1..k -> {DQ, SQ, BS, "n", "a", NL}] : k \in 0..maxlen}

\* the files MigrationWriter writes for a migration that holds one policy operation
WrittenFiles ==
    {MigrationFile([operations |->
                       <<input.operation,
                         RunSQL(input.app, input.operation, input.enforce_fields,
                                SESSION_NAMESPACE_PREFIX)>>]) : input \in PolicyInputs}

\* the files at the path of a migration: none, a written one, or any short text
\* with or without an sql= parameter
FormatInputs ==
    {NoFile} \cup WrittenFiles
    \cup {[exists |-> TRUE, content |-> <<"a", "sql=">> \o text] : text \in Texts(MaxLiteralLen)}
    \cup {[exists |-> TRUE, content |-> <<"a">> \o text] : text \in Texts(2)}

\* super().write_migration_files has returned
InitFormat ==
    /\ vendor = "postgresql"
    /\ session = [c \in Threads |-> NoSession]
    /\ MwIdle
    /\ ClauseIdle
    /\ MigIdle
    /\ DbIdle
    /\ Started
    /\ \E file \in FormatInputs : files = <<file>>
    /\ file_history = <<files>>
    /\ writes = <<0>>

\* one run of _format_migration_sql over the files
FormatFiles ==
    /\ Len(file_history) <= MaxRuns
    /\ files' = format_migration_sql(files)
    /\ writes' = WritesAfter(files, writes)
    /\ file_history' = Append(file_history, files')
    /\ UNCHANGED <<mwvars, clvars, mgvars, dbvars, stvars>>

NextFormat == FormatFiles

SpecFormat == InitFormat /\ [][NextFormat]_vars

(***************************************************************************)
(* Properties of the migration hook.                                       *)
(***************************************************************************)
InjectReturned == inject_pc = "returned"

MigrationIndexes == 1..Len(changes)

\* the operations of the batch as computed, with the migration they are in
OriginalCreates ==
    UNION {{[m |-> m, op |-> original[m].operations[i]] :
               i \in 1..Len(original[m].operations)} : m \in 1..Len(original)}

IsTenantMigration(m) == original[m].app \in {tenant_apps[i] : i \in 1..Len(tenant_apps)}

\* the positions of the operation with identity id in migration m
PositionsOf(m, id) ==
    {i \in 1..Len(changes[m].operations) : changes[m].operations[i].id = id}

\* the policy operations created for the create-table operation id
PoliciesFor(id) ==
    UNION {{[m |-> m, i |-> i] : i \in PositionsOf(m, 100 + id)} : m \in MigrationIndexes}

SelectionsOf(id) == {k \in 1..Len(selection) : selection[k].id = id}

FieldNamesOf(op) == {op.fields[i].name : i \in 1..Len(op.fields)}

\* C11: after inject_rls_operations, every create-table operation of a tenant app
\* with at least one selected field is followed, at the next position of its own
\* migration, by the policy operation made for it; each create-table operation
\* with candidates was processed exactly once and has at most one policy operation.
C11_PolicyRightAfterCreate ==
    InjectReturned =>
        \A c \in OriginalCreates :
            (c.op.kind = "CreateModel" /\ IsTenantMigration(c.m)
             /\ FieldNamesOf(c.op) \cap {"tenant_id", "owner_id"} # {}) =>
                /\ Cardinality(SelectionsOf(c.op.id)) = 1
                /\ Cardinality(PositionsOf(c.m, c.op.id)) = 1
                /\ \A k \in SelectionsOf(c.op.id) :
                      selection[k].enforce # <<>> =>
                          /\ Cardinality(PoliciesFor(c.op.id)) = 1
                          /\ \A i \in PositionsOf(c.m, c.op.id) :
                                /\ i < Len(changes[c.m].operations)
                                /\ changes[c.m].operations[i + 1].kind = "RunSQL"
                                /\ changes[c.m].operations[i + 1].id = 100 + c.op.id

C11_Witness ==
    /\ InjectReturned
    /\ Len(changes[1].operations) = 4
    /\ [i \in 1..4 |-> changes[1].operations[i].kind]
         = <<"CreateModel", "RunSQL", "CreateModel", "RunSQL">>

\* C12: the augment step only inserts: in every migration the operations computed
\* by the autodetector stay, in their order; a migration of an app that is no
\* tenant app is unchanged; with no tenant app the batch is unchanged; a
\* create-table operation without a configured field name gets no policy operation.
C12_InsertionOnly ==
    /\ Len(changes) = Len(original)
    /\ \A m \in MigrationIndexes :
          /\ changes[m].app = original[m].app
          /\ changes[m].name = original[m].name
          /\ LET Computed(op) == op.kind # "RunSQL"
             IN  SelectSeq(changes[m].operations, Computed) = original[m].operations
          /\ ~IsTenantMigration(m) => changes[m] = original[m]
    /\ tenant_apps = <<>> => changes = original
    /\ \A c \in OriginalCreates :
          FieldNamesOf(c.op) \cap {"tenant_id", "owner_id"} = {} => PoliciesFor(c.op.id) = {}

C12_Witness ==
    /\ InjectReturned
    /\ changes # original
    /\ original[2].app = "blog"
    /\ Len(original[2].operations) = 1
    /\ original[2].operations[1].name = "Item"
    /\ original[2].operations[1].kind = "CreateModel"
    /\ \E i \in 1..Len(original[1].operations) : original[1].operations[i].name = "Tag"

\* the position of a field name in the configured candidate list
ConfiguredPosition(f) == IF f = "tenant_id" THEN 1 ELSE IF f = "owner_id" THEN 2 ELSE 0

\* the columns the sub-clauses of a predicate compare, in order
ColumnsOf(clause) == [k \in 1..Len(clause) |-> clause[k].els.column]

OperationOf(id) == (CHOOSE c \in OriginalCreates : c.op.id = id).op

\* C13: the candidates of a create-table operation are the configured names that
\* are fields of the table, in the configured order; without interaction all of
\* them are selected; the predicate of the policy has one sub-clause per selected
\* field, in that order.
C13_CandidatesInConfiguredOrder ==
    \A k \in 1..Len(selection) :
        LET e == selection[k]
            op == OperationOf(e.id)
        IN  /\ {e.available[i] : i \in 1..Len(e.available)}
                  = FieldNamesOf(op) \cap {"tenant_id", "owner_id"}
            /\ \A i, j \in 1..Len(e.available) :
                  i < j => ConfiguredPosition(e.available[i]) < ConfiguredPosition(e.available[j])
            /\ ~interactive => e.enforce = e.available
            /\ \A p \in PoliciesFor(e.id) :
                  LET policy == changes[p.m].operations[p.i]
                  IN  /\ ColumnsOf(policy.sql[2].using) = e.enforce
                      /\ ColumnsOf(policy.sql[2].check) = e.enforce

C13_Witness ==
    /\ ~interactive
    /\ InjectReturned
    /\ \E k \in 1..Len(selection) :
          /\ OperationOf(selection[k].id).name = "Item"
          /\ selection[k].enforce = <<"tenant_id", "owner_id">>
          /\ \E p \in PoliciesFor(selection[k].id) :
                Len(changes[p.m].operations[p.i].sql[2].using) = 2

NothingSelected(result) ==
    result.kind = "cancelled" \/ (result.kind = "answer" /\ result.answer = <<>>)

WarnedAbout(id, text) ==
    \E i \in 1..Len(stdout) : stdout[i] = [style |-> "WARNING", text |-> text, id |-> id]

\* every create-table operation with candidates in a tenant migration has been processed
AllProcessed ==
    \A c \in OriginalCreates :
        (c.op.kind = "CreateModel" /\ IsTenantMigration(c.m)
         /\ FieldNamesOf(c.op) \cap {"tenant_id", "owner_id"} # {}) =>
            SelectionsOf(c.op.id) # {}

\* C14: with interaction, a cancelled prompt or an empty answer gives the table no
\* policy operation and writes a warning; the loop goes on: the other tables are
\* processed, and a table with a non-empty selection gets its policy operation.
C14_CancelSkipsTable ==
    /\ \A k \in 1..Len(selection) :
          LET e == selection[k]
          IN  /\ (interactive /\ NothingSelected(e.result)) =>
                    /\ PoliciesFor(e.id) = {}
                    /\ WarnedAbout(e.id, "Skipping RLS")
              /\ (e.result.kind = "answer" /\ e.result.answer # <<>>) =>
                    /\ e.enforce = e.result.answer
                    /\ Cardinality(PoliciesFor(e.id)) = 1
    /\ InjectReturned /\ tenant_apps # <<>> => AllProcessed

C14_Witness ==
    /\ interactive
    /\ InjectReturned
    /\ Len(selection) = 3
    /\ selection[1].result.kind = "cancelled"
    /\ selection[2].result = [kind |-> "answer", answer |-> <<>>]
    /\ selection[3].result = [kind |-> "answer", answer |-> <<"owner_id">>]
    /\ PoliciesFor(selection[3].id) # {}

\* the verbs of a sequence of statements
Verbs(sql) == [i \in 1..Len(sql) |-> sql[i].verb]

PolicyOperations ==
    {op \in UNION {{changes[m].operations[i] : i \in 1..Len(changes[m].operations)} :
                      m \in MigrationIndexes} : op.kind = "RunSQL"}

\* C15: the forward SQL of a policy operation is DROP POLICY IF EXISTS, CREATE
\* POLICY FOR ALL with one predicate for USING and WITH CHECK, ENABLE and FORCE ROW
\* LEVEL SECURITY; the reverse SQL is NO FORCE, DISABLE, DROP POLICY IF EXISTS;
\* all of them name one table, and the policy is <table>_rls_policy.
C15_StatementsOfPolicy ==
    \A op \in PolicyOperations :
        /\ Verbs(op.sql) = <<"DROP POLICY IF EXISTS", "CREATE POLICY FOR ALL",
                             "ENABLE ROW LEVEL SECURITY", "FORCE ROW LEVEL SECURITY">>
        /\ Verbs(op.reverse_sql) = <<"NO FORCE ROW LEVEL SECURITY",
                                     "DISABLE ROW LEVEL SECURITY", "DROP POLICY IF EXISTS">>
        /\ op.sql[2].using = op.sql[2].check
        /\ op.sql[2].using # <<>>
        /\ \A i \in 1..4, j \in 1..3 : op.sql[i].table = op.reverse_sql[j].table
        /\ op.sql[1].policy = op.sql[1].table \o <<"_rls_policy">>
        /\ op.sql[2].policy = op.sql[1].policy
        /\ op.reverse_sql[3].policy = op.sql[1].policy

C15_Witness ==
    /\ InjectReturned
    /\ \E op \in PolicyOperations :
          /\ op.sql[1].table = <<"orders_tbl">>
          /\ Len(op.sql[2].using) = 1

\* the table name C17 expects for a create-table operation of app
C17_Table(app, op) ==
    IF op.db_table # <<>> THEN op.db_table
    ELSE <<app, "_",
           IF op.name = "Item" THEN "item" ELSE IF op.name = "Order" THEN "order" ELSE "tag">>

C19_NoConsoleSelectsAll ==
    \A k \in 1..Len(selection) :
        LET e == selection[k]
        IN  e.result.kind = "no_console" =>
                /\ WarnedAbout(e.id, "Cannot prompt interactively")
                /\ ~WarnedAbout(e.id, "Skipping RLS")
                /\ e.enforce = e.available
                /\ Cardinality(PoliciesFor(e.id)) = 1
                /\ \A p \in PoliciesFor(e.id) :
                      /\ ColumnsOf(changes[p.m].operations[p.i].sql[2].using) = e.available
                      /\ changes[p.m].operations[p.i] =
                            RunSQL(changes[p.m].app, OperationOf(e.id), e.available, "rls")

C19_Witness ==
    /\ interactive
    /\ InjectReturned
    /\ Len(selection) >= 1
    /\ selection[1].result.kind = "no_console"
    /\ selection[1].available = <<"tenant_id", "owner_id">>

ExpectedCalls == <<"inject_rls_operations", "write_migration_files", "_format_migration_sql">>

PolicyState(state) ==
    [policies |-> state.policies, enabled |-> state.enabled, forced |-> state.forced]

\* C16: on a newly created table, the forward statements followed by the reverse
\* statements leave the policy state as it was before, and the forward statements
\* run twice leave the state they leave when run once; no statement fails.
C16_RoundTrip ==
    /\ (Len(steps) >= 1 /\ steps[1] = "forward") =>
          /\ ~db_history[1].error
          /\ db_history[1].policies # {}
          /\ db_history[1].enabled /\ db_history[1].forced
    /\ (Len(steps) >= 2 /\ steps[1] = "forward" /\ steps[2] = "reverse") =>
          /\ ~db_history[2].error
          /\ PolicyState(db_history[2]) = [policies |-> {}, enabled |-> FALSE, forced |-> FALSE]
    /\ (Len(steps) >= 2 /\ steps[1] = "forward" /\ steps[2] = "forward") =>
          /\ ~db_history[2].error
          /\ PolicyState(db_history[2]) = PolicyState(db_history[1])

C16_Witness ==
    /\ steps = <<"forward", "reverse">>
    /\ db_history[1].policies = {<<"orders_tbl", "_rls_policy">>}
    /\ db_history[1].forced
    /\ db.policies = {}
    /\ ~db.enabled

\* no request has been handled and no batch has been augmented or persisted
NothingDone ==
    /\ \A t \in Threads :
          /\ pc[t] = "idle"
          /\ executed[t] = <<>>
          /\ resolverCalls[t] = 0
          /\ bypassCalls[t] = 0
          /\ cursors[t] = 0
    /\ session = [c \in Threads |-> NoSession]
    /\ hook_i = 0
    /\ inject_pc = "idle"
    /\ phase_log = <<>>
    /\ selection = <<>>
    /\ persisted = <<>>
    /\ changes = original

RECURSIVE MatchesFrom(_, _)
MatchesFrom(content, i) ==
    LET k == NextIn(content, i, Keywords)
    IN  IF k > Len(content) THEN {}
        ELSE IF PatternMatch(content, k) = 0 THEN MatchesFrom(content, k + 1)
        ELSE {k} \cup MatchesFrom(content, PatternMatch(content, k) + 1)

\* a matched literal that Python cannot read
Unparsed(content, i) == ~LiteralEval(SubSeq(content, i + 1, PatternMatch(content, i))).ok

\* the number of runs that changed file m
ChangesOf(m) ==
    Cardinality({k \in 1..(Len(file_history) - 1) : file_history[k + 1][m] # file_history[k][m]})

\* _format_migration_sql leaves a file alone when it does not exist, when pattern
\* matches nowhere in it, or when every matched literal cannot be read
C21_SkippedFilesUnmodified ==
    Len(file_history) >= 2 =>
        \A m \in 1..Len(files) :
            LET before == file_history[1][m]
                matches == MatchesFrom(before.content, 1)
            IN  (\/ ~before.exists
                 \/ matches = {}
                 \/ \A i \in matches : Unparsed(before.content, i)) =>
                    file_history[2][m] = before

\* a file is written exactly by the runs that change its content
C21_WrittenOnlyWhenChanged ==
    \A m \in 1..Len(files) : writes[m] = ChangesOf(m)

\* a second run leaves the files MigrationWriter wrote for a policy operation unchanged
C21_IdempotentOnWrittenFiles ==
    (Len(file_history) >= 3 /\ file_history[1][1] \in WrittenFiles) =>
        /\ file_history[2] # file_history[1]
        /\ file_history[3] = file_history[2]

\* C21: _format_migration_sql is idempotent: run on the files it has already
\* reformatted it leaves them unchanged; files that do not exist, that hold no
\* match of the pattern or whose matched literals cannot be read stay as they
\* are; a file is written only by a run that changes its content.
C21_FormatIdempotent ==
    /\ Len(file_history) >= 3 => file_history[3] = file_history[2]
    /\ C21_SkippedFilesUnmodified
    /\ C21_WrittenOnlyWhenChanged

====
